---- MODULE Spec2Model ----
(***************************************************************************)
(* Model of src/main.py: main(n), the brute-force search for the magic     *)
(* n-gon rings (Project Euler 68).                                         *)
(*                                                                         *)
(* Python values are modelled as follows.                                  *)
(*   - the argument n is a record [type, val]: the Python type of the      *)
(*     object passed and the number it denotes;                            *)
(*   - a tuple or list is a sequence; Python position i is index i+1;      *)
(*   - a str is a sequence of one-character strings, ordered by code point *)
(*     as Python orders strings;                                           *)
(*   - the arbitrary-precision int built by int(''.join(...)) is the       *)
(*     sequence of its decimal digits, most significant first, without     *)
(*     leading zeros (0 is <<0>>): the 12- and 16-digit values of n = 4    *)
(*     and n = 5 do not fit the model checker's integers.                  *)
(***************************************************************************)
EXTENDS Integers, Sequences, FiniteSets

VARIABLES n, pc, ring, sol_strs, sol_concat_max, result

vars == <<n, pc, ring, sol_strs, sol_concat_max, result>>

\* Largest number tried as the argument (the valid ones are MinN..MaxN).
MaxInput == 7

\* assert ... 3 <= n <= 5
MinN == 3
MaxN == 5

ArgTypes == {"int", "float", "str"}

Args == [type : ArgTypes, val : 0..MaxInput]

None == <<"None">>

----------------------------------------------------------------------------
(* Strings *)

DigitChars == <<"0", "1", "2", "3", "4", "5", "6", "7", "8", "9">>

\* ord(c) for the characters the program writes
Ord(c) ==
    CASE c = " " -> 32
      [] c = "," -> 44
      [] c = ";" -> 59
      [] OTHER -> 47 + (CHOOSE k \in 1..10 : DigitChars[k] = c)

\* str(x) for a natural number x
RECURSIVE Str(_)
Str(x) ==
    IF x < 10 THEN <<DigitChars[x + 1]>>
    ELSE Str(x \div 10) \o <<DigitChars[(x % 10) + 1]>>

\* sep.join(parts)
RECURSIVE Join(_, _)
Join(sep, parts) ==
    IF parts = <<>> THEN <<>>
    ELSE IF Len(parts) = 1 THEN parts[1]
    ELSE parts[1] \o sep \o Join(sep, Tail(parts))

\* a < b for two str, as Python compares them (code points, then length)
RECURSIVE StrLess(_, _)
StrLess(a, b) ==
    IF a = <<>> THEN b # <<>>
    ELSE IF b = <<>> THEN FALSE
    ELSE IF a[1] = b[1] THEN StrLess(Tail(a), Tail(b))
    ELSE Ord(a[1]) < Ord(b[1])

----------------------------------------------------------------------------
(* Integers of arbitrary precision *)

Zero == <<0>>

RECURSIVE StripZeros(_)
StripZeros(d) ==
    IF Len(d) > 1 /\ d[1] = 0 THEN StripZeros(Tail(d)) ELSE d

\* int(s) for a str s of decimal digits
ParseInt(s) == StripZeros([k \in 1..Len(s) |-> Ord(s[k]) - 48])

RECURSIVE DigitsLess(_, _)
DigitsLess(a, b) ==
    IF a = <<>> THEN FALSE
    ELSE IF a[1] = b[1] THEN DigitsLess(Tail(a), Tail(b))
    ELSE a[1] < b[1]

\* a < b
IntLess(a, b) ==
    IF Len(a) # Len(b) THEN Len(a) < Len(b) ELSE DigitsLess(a, b)

\* the smaller of the two: the comparison of max turned round
IntMin(a, b) == IF IntLess(a, b) THEN a ELSE b

\* the newest value: sol_concat_max = sol_concat, without max
IntLatest(a, b) == b

\* max(a, b)
IntMax(a, b) == IF IntLess(a, b) THEN b ELSE a

----------------------------------------------------------------------------
(* main *)

\* the range test alone, without the test of the type
ValidRangeOnly(a) == MinN <= a.val /\ a.val <= MaxN

\* type(n) == int and 3 <= n <= 5
ValidArg(a) == a.type = "int" /\ MinN <= a.val /\ a.val <= MaxN

\* entries = list(range(1, 2*n+1))
Entries(m) == [k \in 1..(2 * m) |-> k]

\* (n + (i+1)) % n in place of n + (i+1) % n
ConstraintsWrapAll(m) ==
    [k \in 1..m |-> <<k - 1, m + (k - 1), (m + k) % m>>]

\* constraints = [(i, n+i, n + (i+1) % n) for i in range(n)]
Constraints(m) == [k \in 1..m |-> <<k - 1, m + (k - 1), m + (k % m)>>]

\* ring[i], i a Python position
At(r, i) == r[i + 1]

\* ring[:n]
Externals(m, r) == {r[k] : k \in 1..m}

SetMin(S) == CHOOSE x \in S : \A y \in S : x <= y

SetMax(S) == CHOOSE x \in S : \A y \in S : y <= x

\* itertools.permutations(entries) yields the orderings of the sorted list
\* `entries` in lexicographic order. LastAscent(p, k) is the last position
\* i <= k with p[i] < p[i+1], or 0 when p is the last ordering.
RECURSIVE LastAscent(_, _)
LastAscent(p, k) ==
    IF k = 0 THEN 0
    ELSE IF p[k] < p[k + 1] THEN k
    ELSE LastAscent(p, k - 1)

\* the last position j >= k with p[j] > x
RECURSIVE LastGreater(_, _, _)
LastGreater(p, x, k) == IF p[k] > x THEN k ELSE LastGreater(p, x, k - 1)

HasNextPermutation(p) == LastAscent(p, Len(p) - 1) # 0

\* the ordering that follows p
NextPermutation(p) ==
    LET L == Len(p)
        i == LastAscent(p, L - 1)
        j == LastGreater(p, p[i], L)
    IN  [k \in 1..L |->
            IF k < i THEN p[k]
            ELSE IF k = i THEN p[j]
            ELSE LET m == L + i + 1 - k
                 IN  IF m = j THEN p[i] ELSE p[m]]

\* 10 not in ring: the whole ring in place of ring[:n]
MissesTenAnywhere(m, r) == m = 5 /\ 10 \notin {r[k] : k \in 1..Len(r)}

\* n == 5 and 10 not in ring[:n]
MissesTen(m, r) == m = 5 /\ 10 \notin Externals(m, r)

\* max in place of min
NotGreatestFirst(m, r) == SetMax(Externals(m, r)) # At(r, 0)

\* min(ring) in place of min(ring[:n])
NotLeastOfRingFirst(m, r) == SetMin({r[k] : k \in 1..Len(r)}) # At(r, 0)

\* min(ring[:n]) != ring[0]
NotCanonical(m, r) == SetMin(Externals(m, r)) # At(r, 0)

\* lines = list(map(lambda c: list(map(lambda i: ring[i], c)), constraints))
Lines(m, r) ==
    LET c == Constraints(m)
    IN  [k \in 1..m |-> <<At(r, c[k][1]), At(r, c[k][2]), At(r, c[k][3])>>]

\* sum(line)
LineSum(line) == line[1] + line[2] + line[3]

\* sums = set(map(sum, lines))
Sums(lines) == {LineSum(lines[k]) : k \in 1..Len(lines)}

\* len(sums) > 2
MoreThanTwoSums(lines) == Cardinality(Sums(lines)) > 2

\* len(sums) > 1
UnequalSums(lines) == Cardinality(Sums(lines)) > 1

\* [str(x) for line in lines for x in line]
RECURSIVE FlatStrs(_)
FlatStrs(lines) ==
    IF lines = <<>> THEN <<>>
    ELSE <<Str(lines[1][1]), Str(lines[1][2]), Str(lines[1][3])>>
         \o FlatStrs(Tail(lines))

\* sol_concat = int(''.join([str(x) for line in lines for x in line]))
SolConcat(lines) == ParseInt(Join(<<>>, FlatStrs(lines)))

\* ','.join(map(str, line))
LineStr(line) == Join(<<",">>, <<Str(line[1]), Str(line[2]), Str(line[3])>>)

\* sol_str = '; '.join(map(lambda line: ','.join(map(str, line)), lines))
SolStr(lines) ==
    Join(<<";", " ">>, [k \in 1..Len(lines) |-> LineStr(lines[k])])

\* the three filters of the loop body: TRUE when the ring is kept
Passes(m, r) ==
    /\ ~MissesTen(m, r)
    /\ ~NotCanonical(m, r)
    /\ ~UnequalSums(Lines(m, r))

\* the description appended twice
AppendSolTwice(strs, s) == Append(Append(strs, s), s)

\* sol_strs.append(sol_str)
AppendSol(strs, s) == Append(strs, s)

\* insertion into an ascending list: reverse=True forgotten
RECURSIVE InsertAsc(_, _)
InsertAsc(s, sorted) ==
    IF sorted = <<>> THEN <<s>>
    ELSE IF StrLess(s, sorted[1]) THEN <<s>> \o sorted
    ELSE <<sorted[1]>> \o InsertAsc(s, Tail(sorted))

\* sol_strs.sort(reverse=True)
RECURSIVE InsertDesc(_, _)
InsertDesc(s, sorted) ==
    IF sorted = <<>> THEN <<s>>
    ELSE IF StrLess(sorted[1], s) THEN <<s>> \o sorted
    ELSE <<sorted[1]>> \o InsertDesc(s, Tail(sorted))

RECURSIVE SortDesc(_)
SortDesc(strs) ==
    IF strs = <<>> THEN <<>>
    ELSE InsertDesc(strs[Len(strs)], SortDesc(SubSeq(strs, 1, Len(strs) - 1)))

----------------------------------------------------------------------------

Init ==
    /\ n \in Args
    /\ pc = "start"
    /\ ring = <<>>
    /\ sol_strs = <<>>
    /\ sol_concat_max = Zero
    /\ result = None

\* main is called: the assert, then the set-up of lines 73-80
Call ==
    /\ pc = "start"
    /\ pc' = IF ValidArg(n) THEN "loop" ELSE "AssertionError"
    /\ UNCHANGED <<n, ring, sol_strs, sol_concat_max, result>>

\* one iteration of `for ring in permutations(entries)`
Iterate ==
    /\ pc = "loop"
    /\ IF ring = <<>> THEN TRUE ELSE HasNextPermutation(ring)
    /\ ring' = IF ring = <<>> THEN Entries(n.val) ELSE NextPermutation(ring)
    /\ IF Passes(n.val, ring')
       THEN LET lines == Lines(n.val, ring')
            IN  /\ sol_concat_max' = IntMax(sol_concat_max, SolConcat(lines))
                /\ sol_strs' = AppendSol(sol_strs, SolStr(lines))
       ELSE UNCHANGED <<sol_strs, sol_concat_max>>
    /\ UNCHANGED <<n, pc, result>>

\* the permutations are exhausted: sort and return
Return ==
    /\ pc = "loop"
    /\ IF ring = <<>> THEN FALSE ELSE ~HasNextPermutation(ring)
    /\ sol_strs' = SortDesc(sol_strs)
    /\ result' = <<sol_strs', sol_concat_max>>
    /\ pc' = "done"
    /\ UNCHANGED <<n, ring, sol_concat_max>>

Next == Call \/ Iterate \/ Return

Spec == Init /\ [][Next]_vars

----------------------------------------------------------------------------
(* Reading a description back: the inverse of the formatting, written       *)
(* without the operators of the program above.                              *)

\* the position of the first c in s, or 0
RECURSIVE IndexOf(_, _, _)
IndexOf(s, c, k) ==
    IF k > Len(s) THEN 0
    ELSE IF s[k] = c THEN k
    ELSE IndexOf(s, c, k + 1)

\* s.split(c)
RECURSIVE SplitOn(_, _)
SplitOn(s, c) ==
    LET k == IndexOf(s, c, 1)
    IN  IF k = 0 THEN <<s>>
        ELSE <<SubSeq(s, 1, k - 1)>> \o SplitOn(SubSeq(s, k + 1, Len(s)), c)

\* s without its leading blanks
RECURSIVE LStrip(_)
LStrip(s) == IF s # <<>> /\ s[1] = " " THEN LStrip(Tail(s)) ELSE s

DigitValue ==
    [c \in {DigitChars[k] : k \in 1..10} |->
        (CHOOSE k \in 1..10 : DigitChars[k] = c) - 1]

\* the number a str of digits spells (a node value, at most two digits)
RECURSIVE NatOf(_)
NatOf(s) ==
    IF s = <<>> THEN 0
    ELSE 10 * NatOf(SubSeq(s, 1, Len(s) - 1)) + DigitValue[s[Len(s)]]

\* the triples a description lists
ParseSol(s) ==
    LET groups == SplitOn(s, ";")
    IN  [g \in 1..Len(groups) |->
            LET f == SplitOn(LStrip(groups[g]), ",")
            IN  [j \in 1..Len(f) |-> NatOf(f[j])]]

\* the ring a list of triples describes: the external nodes (first of each
\* triple), then the internal nodes (second of each triple)
RingOf(lines) ==
    LET m == Len(lines)
    IN  [k \in 1..(2 * m) |->
            IF k <= m THEN lines[k][1] ELSE lines[k - m][2]]

\* the digits of a description, in order: its concatenated value
DigitsOf(s) ==
    LET d == SelectSeq(s, LAMBDA c : c \in DOMAIN DigitValue)
    IN  [k \in 1..Len(d) |-> DigitValue[d[k]]]

\* all the sums of the triples are the same
EqualSums(lines) ==
    \A i, j \in 1..Len(lines) :
        lines[i][1] + lines[i][2] + lines[i][3]
            = lines[j][1] + lines[j][2] + lines[j][3]

Returned == pc = "done"
ReturnedList == result[1]
ReturnedMax == result[2]

\* the candidate of the last iteration, once there has been one
Examined == pc \in {"loop", "done"} /\ ring # <<>>

----------------------------------------------------------------------------
(* Claims *)

\* C1: for n in 3..5, every description main returns lists n triples, the
\* triples at positions (i, n+i, n+(i+1) mod n) of one ring, and the n
\* triples all have the same sum.
C1_ReturnedLinesEqualSums ==
    Returned =>
        \A k \in 1..Len(ReturnedList) :
            LET lines == ParseSol(ReturnedList[k])
            IN  /\ Len(lines) = n.val
                /\ \A i \in 1..n.val :
                       /\ lines[i][1] = RingOf(lines)[i]
                       /\ lines[i][2] = RingOf(lines)[n.val + i]
                       /\ lines[i][3] = RingOf(lines)[n.val + (i % n.val) + 1]
                /\ EqualSums(lines)

C1_Witness == Returned /\ n.val = 4 /\ Len(ReturnedList) >= 2

\* the magic total of a description
TotalOf(s) ==
    LET lines == ParseSol(s) IN lines[1][1] + lines[1][2] + lines[1][3]

\* the table of the header of src/main.py
HeaderTable ==
    { <<"4",",","2",",","3",";"," ","5",",","3",",","1",";"," ","6",",","1",",","2">>,
      <<"4",",","3",",","2",";"," ","6",",","2",",","1",";"," ","5",",","1",",","3">>,
      <<"2",",","3",",","5",";"," ","4",",","5",",","1",";"," ","6",",","1",",","3">>,
      <<"2",",","5",",","3",";"," ","6",",","3",",","1",";"," ","4",",","1",",","5">>,
      <<"1",",","4",",","6",";"," ","3",",","6",",","2",";"," ","5",",","2",",","4">>,
      <<"1",",","6",",","4",";"," ","5",",","4",",","2",";"," ","3",",","2",",","6">>,
      <<"1",",","5",",","6",";"," ","2",",","6",",","4",";"," ","3",",","4",",","5">>,
      <<"1",",","6",",","5",";"," ","3",",","5",",","4",";"," ","2",",","4",",","6">> }

\* C2: for n = 3 main returns exactly 8 solutions, the eight descriptions of
\* the header table; their totals are 9, 10, 11 and 12, two solutions each.
C2_EightSolutionsForThree ==
    (Returned /\ n.val = 3) =>
        /\ Len(ReturnedList) = 8
        /\ {ReturnedList[k] : k \in 1..Len(ReturnedList)} = HeaderTable
        /\ \A k \in 1..Len(ReturnedList) :
               /\ EqualSums(ParseSol(ReturnedList[k]))
               /\ TotalOf(ReturnedList[k]) \in 9..12
        /\ \A t \in 9..12 :
               Cardinality({k \in 1..Len(ReturnedList) :
                               TotalOf(ReturnedList[k]) = t}) = 2

C2_Witness == Returned /\ n.val = 3 /\ Len(ReturnedList) = 8

\* the value of an integer of at most 9 digits
RECURSIVE ValueOf(_)
ValueOf(d) ==
    IF d = <<>> THEN 0
    ELSE 10 * ValueOf(SubSeq(d, 1, Len(d) - 1)) + d[Len(d)]

\* C3: for n = 3 the maximum main returns is exactly 432621513.
C3_MaxForThree ==
    (Returned /\ n.val = 3) =>
        /\ Len(ReturnedMax) = 9
        /\ ValueOf(ReturnedMax) = 432621513

C3_Witness == Returned /\ n.val = 3 /\ ReturnedMax # Zero

\* C4: for n = 5 every returned solution has 10 among its external nodes
\* (the first elements of its 5 triples), and the concatenated value of
\* every ring that passes the filters, the running and the returned maximum
\* included, has exactly 16 digits.
C4_TenExternalSixteenDigits ==
    n.val = 5 =>
        /\ (Examined /\ Passes(5, ring)) =>
               Len(SolConcat(Lines(5, ring))) = 16
        /\ sol_concat_max = Zero \/ Len(sol_concat_max) = 16
        /\ Returned =>
               /\ Len(ReturnedMax) = 16
               /\ \A k \in 1..Len(ReturnedList) :
                      LET lines == ParseSol(ReturnedList[k])
                      IN  /\ Len(lines) = 5
                          /\ 10 \in {lines[i][1] : i \in 1..5}
                          /\ Len(DigitsOf(ReturnedList[k])) = 16

C4_Witness ==
    /\ n.val = 5
    /\ Examined
    /\ Passes(5, ring)
    /\ Len(sol_strs) >= 2
    /\ Len(sol_concat_max) = 16

\* C5: for n in 3..5, in every returned solution the external node of the
\* first triple is the least of the n external nodes.
C5_LeastExternalFirst ==
    Returned =>
        \A k \in 1..Len(ReturnedList) :
            LET lines == ParseSol(ReturnedList[k])
            IN  /\ Len(lines) = n.val
                /\ \A i \in 1..Len(lines) : lines[1][1] <= lines[i][1]

C5_Witness ==
    /\ Returned
    /\ n.val = 4
    /\ \E k \in 1..Len(ReturnedList) : ParseSol(ReturnedList[k])[1][1] > 1

\* n is not an integer, or lies outside [3, 5]
InvalidInput == n.type # "int" \/ n.val < 3 \/ n.val > 5

\* C6: for an n that is not an integer or lies outside [3, 5], main fails
\* with the assertion error before any candidate ring is enumerated: no
\* list and no maximum is produced.
C6_InvalidInputFails ==
    InvalidInput =>
        /\ pc \in {"start", "AssertionError"}
        /\ ring = <<>>
        /\ sol_strs = <<>>
        /\ sol_concat_max = Zero
        /\ result = None

C6_Witness == pc = "AssertionError" /\ n.type = "float" /\ n.val = 4

\* C7: for n in 3..5, no two entries of the returned list are identical.
C7_ReturnedListDistinct ==
    Returned =>
        \A i, j \in 1..Len(ReturnedList) :
            i # j => ReturnedList[i] # ReturnedList[j]

C7_Witness == Returned /\ n.val = 4 /\ Len(ReturnedList) = 12

\* v is the largest concatenated value of the descriptions of strs, or 0
\* when there is none
IsLargestOf(v, strs) ==
    IF strs = <<>> THEN v = Zero
    ELSE /\ \E k \in 1..Len(strs) : v = DigitsOf(strs[k])
         /\ \A k \in 1..Len(strs) : ~IntLess(v, DigitsOf(strs[k]))

\* C8: after any prefix of the candidates the running maximum is the
\* largest concatenated value of the rings accepted so far, and 0 when none
\* has been accepted; the maximum returned is the largest concatenated
\* value of the returned solutions. Stated by induction over the run: it
\* holds at the start, a step that leaves the list alone leaves the maximum
\* alone, and a step that changes the list leaves the maximum the largest
\* value of the new list.
C8_RunningMaximum ==
    /\ IsLargestOf(sol_concat_max, sol_strs)
    /\ [][/\ IF sol_strs' = sol_strs
             THEN sol_concat_max' = sol_concat_max
             ELSE IsLargestOf(sol_concat_max', sol_strs')
          /\ Returned' => IsLargestOf(ReturnedMax', ReturnedList')]_vars

\* a later accepted ring has a smaller value than the maximum so far
C8_Witness ==
    /\ pc = "loop"
    /\ Len(sol_strs) >= 2
    /\ IntLess(DigitsOf(sol_strs[Len(sol_strs)]), sol_concat_max)

\* C9: the returned list is in descending order of its strings: each entry
\* is greater than or equal to the one after it.
C9_ReturnedListDescending ==
    Returned =>
        \A k \in 1..(Len(ReturnedList) - 1) :
            ~StrLess(ReturnedList[k], ReturnedList[k + 1])

C9_Witness ==
    /\ Returned
    /\ n.val = 4
    /\ \E k \in 1..(Len(ReturnedList) - 1) :
           StrLess(ReturnedList[k + 1], ReturnedList[k])

\* the ring r turned by k places: external and internal nodes together
Rotation(m, r, k) ==
    [p \in 1..(2 * m) |->
        IF p <= m THEN r[((p - 1 + k) % m) + 1]
        ELSE r[m + ((p - m - 1 + k) % m) + 1]]

\* the n lines of the ring r have equal sums
Magic(m, r) ==
    \A i \in 1..m :
        r[i] + r[m + i] + r[m + (i % m) + 1] = r[1] + r[m + 1] + r[m + 2]

\* the entries of strs that describe a rotation of r
FamilyEntries(m, r, strs) ==
    {e \in 1..Len(strs) :
        \E k \in 0..(m - 1) : RingOf(ParseSol(strs[e])) = Rotation(m, r, k)}

\* what C10 says of every magic ring: all its rotations are magic and
\* exactly one of them passes the canonical-form filter
RotationsOfMagicRing(m, r) ==
    /\ \A k \in 0..(m - 1) : Magic(m, Rotation(m, r, k))
    /\ Cardinality({k \in 0..(m - 1) :
                       ~NotCanonical(m, Rotation(m, r, k))}) = 1

\* C10 as stated: of every magic ring exactly one rotation passes the
\* canonical-form filter, every rotation is magic, and its family has
\* exactly one entry in the list.
C10_AsStated ==
    (Examined /\ Magic(n.val, ring)) =>
        /\ RotationsOfMagicRing(n.val, ring)
        /\ Cardinality(FamilyEntries(n.val, ring, sol_strs)) = 1

\* C10, amended: as stated, except that for n = 5 the family of a magic
\* ring without 10 among its external nodes has no entry in the list.
C10_OneEntryPerFamily ==
    (Examined /\ Magic(n.val, ring)) =>
        /\ RotationsOfMagicRing(n.val, ring)
        /\ Cardinality(FamilyEntries(n.val, ring, sol_strs))
               = IF n.val = 5 /\ 10 \notin {ring[k] : k \in 1..5}
                 THEN 0 ELSE 1

\* a magic 5-gon ring with 10 outside that is not in canonical form, its
\* family entered once
C10_Witness ==
    /\ Examined
    /\ n.val = 5
    /\ Magic(5, ring)
    /\ 10 \in {ring[k] : k \in 1..5}
    /\ \E k \in 2..5 : ring[k] < ring[1]
    /\ Cardinality(FamilyEntries(5, ring, sol_strs)) = 1

====
